---------------------------- MODULE Spec2Model ----------------------------
(***************************************************************************)
(* Thermostat-NTC: the NTC voltage-divider sensor (lib/NTCSensor), the     *)
(* program that drives a heating relay from it (src/main.cpp) and the      *)
(* BME280 sensor variant (test/saved/BME280Sensor).                        *)
(*                                                                         *)
(* Numbers.  A C++ double/float is modelled as an exact fraction           *)
(* [n |-> numerator, d |-> denominator] in lowest terms with d >= 0;       *)
(* d = 0 encodes the IEEE non-finite values: 1/0 is +Inf, -1/0 is -Inf and *)
(* 0/0 is NaN.  Rounding and the sign of zero are not modelled.            *)
(* Temperatures are in hundredths of a degree, voltages in mV, resistances *)
(* in Ohm.  exp() and log() are evaluated in base 2, which is the code's   *)
(* natural exp/log for a beta scaled by ln 2; the sensor inputs are drawn  *)
(* from values on which both are exact (ModelExact checks it).             *)
(***************************************************************************)
EXTENDS Integers, Sequences, FiniteSets, TLC

\* ------------------------------------------------------------------ bounds
\* the free-running clock millis() runs from 0 to MaxTime
MaxTime == 4
\* beta takes the values n * (To - Tabs), n in 1..MaxBetaN, and 14 * (To - Tabs)
MaxBetaN == 1

\* ------------------------------------------------------- double arithmetic
RECURSIVE GCD(_, _)
GCD(a, b) == IF b = 0 THEN a ELSE GCD(b, a % b)

Abs(x) == IF x < 0 THEN -x ELSE x
Sign(x) == IF x < 0 THEN -1 ELSE IF x > 0 THEN 1 ELSE 0

\* the double n/d, in lowest terms
Rat(n, d) ==
    IF d = 0 THEN [n |-> Sign(n), d |-> 0]
    ELSE LET g == GCD(Abs(n), Abs(d))
             s == Sign(d)
         IN  [n |-> (s * n) \div g, d |-> (s * d) \div g]

Num(i) == [n |-> i, d |-> 1]
PosInf == [n |-> 1, d |-> 0]
NegInf == [n |-> -1, d |-> 0]
NaN    == [n |-> 0, d |-> 0]
IsFinite(x) == x.d # 0
IsNaN(x) == x.d = 0 /\ x.n = 0

\* a \div b, or a itself where b = 0 (cancelling a common factor of 0 and 0)
Cancel(a, g) == IF g = 0 THEN a ELSE a \div g

RAdd(x, y) ==
    IF x.d = 0 /\ y.d = 0 THEN (IF x.n = y.n THEN x ELSE NaN)
    ELSE LET g == GCD(x.d, y.d)
         IN  Rat(x.n * Cancel(y.d, g) + y.n * Cancel(x.d, g), x.d * Cancel(y.d, g))
RSub(x, y) == RAdd(x, [n |-> -y.n, d |-> y.d])
RMul(x, y) ==
    LET g1 == GCD(Abs(x.n), y.d)
        g2 == GCD(Abs(y.n), x.d)
    IN  Rat(Cancel(x.n, g1) * Cancel(y.n, g2), Cancel(x.d, g2) * Cancel(y.d, g1))
RDiv(x, y) == RMul(x, [n |-> (IF y.n < 0 THEN -1 ELSE 1) * y.d, d |-> Abs(y.n)])
\* x < y and x >= y as C++ compares doubles: false when either is NaN
RLess(x, y) == ~IsNaN(x) /\ ~IsNaN(y) /\ x.n * y.d < y.n * x.d
RGeq(x, y)  == ~IsNaN(x) /\ ~IsNaN(y) /\ x.n * y.d >= y.n * x.d

\* whether the positive fraction n/d is a power of two
RECURSIVE IsPow2(_, _)
IsPow2(n, d) ==
    IF n = d THEN TRUE
    ELSE IF n >= 2 * d THEN IsPow2(n, 2 * d)
    ELSE IF 2 * n <= d THEN IsPow2(2 * n, d)
    ELSE FALSE

RECURSIVE Log2(_, _)
Log2(n, d) ==
    IF n >= 2 * d THEN 1 + Log2(n, 2 * d)
    ELSE IF n < d THEN Log2(2 * n, d) - 1
    ELSE 0

\* log(x): log(0) = -Inf, log(x < 0) = NaN, log(+Inf) = +Inf, log(1) = 0
Log(x) ==
    IF IsNaN(x) \/ x.n < 0 THEN NaN
    ELSE IF x.d = 0 THEN PosInf
    ELSE IF x.n = 0 THEN NegInf
    ELSE Num(Log2(x.n, x.d))

\* exp(x): exp(-Inf) = 0, exp(+Inf) = +Inf
Exp(x) ==
    IF IsNaN(x) THEN NaN
    ELSE IF x.d = 0 THEN (IF x.n > 0 THEN PosInf ELSE Num(0))
    ELSE LET e == x.n \div x.d
         IN  IF e >= 0 THEN Rat(2 ^ e, 1) ELSE Rat(1, 2 ^ (-e))

\* the arguments on which Log and Exp above are exact
LogExact(x) == (IsFinite(x) /\ x.n > 0) => IsPow2(x.n, x.d)
ExpExact(x) == IsFinite(x) => x.d = 1


\* --------------------------------------------------------------- constants
\* SensorData::To and SensorData::Tabs, in hundredths of a degree
To == 2500
Tabs == -27315

\* ParamsNTC instances { Rs, Ro, beta }; beta is held in hundredths of a Kelvin
BetaValues == { n * (To - Tabs) : n \in (1..MaxBetaN) \cup {14} }
ntcRs10k == [Rs |-> 10000, Ro |-> 10000, beta |-> 14 * (To - Tabs)]
ntcRs20k == [Rs |-> 20000, Ro |-> 10000, beta |-> 14 * (To - Tabs)]

\* ParamsADC instance { pin, ntcToGround, Amax, att, Vcc, Vref, Voff }, with the
\* voltages and the ADC range scaled down: the ADC has the steps 0..4, each
\* worth 2 units of voltage above an offset of 2, on a supply of 12
adcEsp32_11 == [pin |-> 34, ntcToGround |-> TRUE, Amax |-> 4, att |-> "ADC_11db",
                Vcc |-> 12, Vref |-> 10, Voff |-> 2]

\* the resistances the NTC takes: Rs times a power of two
NtcValues(nt) == { nt.Rs * 2, nt.Rs, nt.Rs \div 2 }

VARIABLES
    ntc,            \* ParamsNTC the sensor refers to (_ntc)
    adc,            \* ParamsADC the sensor refers to (_adc)
    sData,          \* SensorData the sensor refers to (_sData)
    Rntc,           \* the resistance the NTC has now (environment)
    RooCtor,        \* history: Roo as the constructor computed it
    ev,             \* history: the last sensor call and what it did
    th,             \* the Thermostat object
    heatingIsOn,    \* main.cpp: bool heatingIsOn
    pinThermostat,  \* level of PIN_THERMOSTAT
    now,            \* millis()
    pcMain,         \* "boot" before setup(), "running" in loop()
    lev,            \* history: the last loop() invocation and what it did
    recent,         \* history: times of the reads and onTick calls loop() made
                    \* less than one poll interval ago
    bme,            \* BME280Sensor::setup(): position and tries
    bmeData,        \* the BME280's SensorData (_sData)
    bmeEnv,         \* what the BME280 hardware would answer now (environment)
    bev             \* history: the last BME280 call and what it did

sensorVars == <<ntc, adc, sData, Rntc, RooCtor, ev>>
mainVars == <<th, heatingIsOn, pinThermostat, now, pcMain, lev, recent>>
bmeVars == <<bme, bmeData, bmeEnv, bev>>
vars == <<ntc, adc, sData, Rntc, RooCtor, ev, th, heatingIsOn, pinThermostat,
          now, pcMain, lev, recent, bme, bmeData, bmeEnv, bev>>

\* ------------------------------------------------------------ NTC sensor
\* Roo = Ro * exp(-beta / (To - Tabs))
RooExponent(nt) == RDiv(Num(-nt.beta), RSub(Num(To), Num(Tabs)))
RooOf(nt) == RMul(Num(nt.Ro), Exp(RooExponent(nt)))

\* NTCSensor::NTCSensor: the record is a zero-initialised global; Roo is set
NTCSensor(nt) ==
    [tCelsius |-> Num(0), tFahrenheit |-> Num(0), tKelvin |-> Num(0),
     Roo |-> RooOf(nt), k |-> Num(0), v |-> Num(0), vin |-> Num(0),
     Rt |-> Num(0), analogValue |-> 0, sensorPin |-> 0]

\* the voltage on the ADC pin for NTC resistance R (the two wirings of the
\* divider Rs / NTC between Vcc and GND)
DividerVin(nt, ad, R) ==
    IF ad.ntcToGround THEN Rat(ad.Vcc * R, nt.Rs + R)
    ELSE Rat(ad.Vcc * nt.Rs, nt.Rs + R)

\* the formulas of readSensor()
Vstep(ad) == RDiv(RSub(Num(ad.Vref), Num(ad.Voff)), Num(ad.Amax))
VinOf(ad, a, v) == RAdd(RMul(Num(a), v), Num(ad.Voff))
Kratio(ad, vin) == RDiv(vin, RSub(Num(ad.Vcc), vin))
KwiredSwapped(ad, k) == IF ad.ntcToGround THEN RDiv(Num(1), k) ELSE k
Kwired(ad, k) == IF ~ad.ntcToGround THEN RDiv(Num(1), k) ELSE k
RtOf(nt, k) == RMul(Num(nt.Rs), k)
TkelvinOf(nt, Rt, Roo) == RDiv(Num(nt.beta), Log(RDiv(Rt, Roo)))
TcelsiusOf(tK) == RAdd(tK, Num(Tabs))
TfahrenheitOf(tC) == RAdd(RDiv(RMul(tC, Num(9)), Num(5)), Num(3200))

\* analogRead(pin): the samples whose voltage is the divider's
analogRead(nt, ad, R) ==
    { a \in 0..ad.Amax : VinOf(ad, a, Vstep(ad)) = DividerVin(nt, ad, R) }

\* the statements of readSensor(), each on the record the one before left
readV(ad, sd)   == [sd EXCEPT !.v = Vstep(ad)]
readVin(ad, sd) == [sd EXCEPT !.vin = VinOf(ad, sd.analogValue, sd.v)]
readK(ad, sd)   == [sd EXCEPT !.k = Kwired(ad, Kratio(ad, sd.vin))]
readRt(nt, sd)  == [sd EXCEPT !.Rt = RtOf(nt, sd.k)]
readKelvin(nt, sd) == [sd EXCEPT !.tKelvin = TkelvinOf(nt, sd.Rt, sd.Roo)]
readCelsius(sd) == [sd EXCEPT !.tCelsius = TcelsiusOf(sd.tKelvin)]
readFahrenheit(sd) == [sd EXCEPT !.tFahrenheit = TfahrenheitOf(sd.tCelsius)]

\* NTCSensor::readSensor on sample a: the record it leaves
readSensor(nt, ad, sd, a) ==
    readFahrenheit(readCelsius(readKelvin(nt, readRt(nt, readK(ad,
        readVin(ad, readV(ad, [sd EXCEPT !.analogValue = a])))))))

\* the ratio k before the wiring branch of readSensor, for sample a
kPreOf(ad, a) == Kratio(ad, VinOf(ad, a, Vstep(ad)))

\* NTCSensor::setup before its readSensor(): pin and Roo
setupRooKept(nt, ad, sd) == [sd EXCEPT !.sensorPin = ad.pin]
setupRoo(nt, ad, sd) == [sd EXCEPT !.sensorPin = ad.pin, !.Roo = RooOf(nt)]

Event(op, a, ret) == [op |-> op, raw |-> a, ret |-> ret]

NTC_setup ==
    /\ \E a \in analogRead(ntc, adc, Rntc) :
          /\ sData' = readSensor(ntc, adc, setupRoo(ntc, adc, sData), a)
          /\ ev' = Event("setup", a, NaN)
    /\ UNCHANGED <<ntc, adc, Rntc, RooCtor>>

NTC_readSensor ==
    /\ \E a \in analogRead(ntc, adc, Rntc) :
          /\ sData' = readSensor(ntc, adc, sData, a)
          /\ ev' = Event("readSensor", a, NaN)
    /\ UNCHANGED <<ntc, adc, Rntc, RooCtor>>

NTC_getCelsius ==
    /\ ev' = Event("getCelsius", -1, sData.tCelsius)
    /\ UNCHANGED <<ntc, adc, sData, Rntc, RooCtor>>

NTC_printData ==
    /\ \E a \in analogRead(ntc, adc, Rntc) :
          /\ sData' = readSensor(ntc, adc, sData, a)
          /\ ev' = Event("printData", a, NaN)
    /\ UNCHANGED <<ntc, adc, Rntc, RooCtor>>

NTC_printParams ==
    /\ ev' = Event("printParams", -1, NaN)
    /\ UNCHANGED <<ntc, adc, sData, Rntc, RooCtor>>

\* NTCSensor::setNTCbeta: the parameters and the record it leaves
setNTCbeta(nt, sd, beta) == [nt |-> [nt EXCEPT !.beta = beta], sd |-> sd]

NTC_setNTCbeta ==
    /\ \E beta \in BetaValues :
          /\ ntc' = setNTCbeta(ntc, sData, beta).nt
          /\ sData' = setNTCbeta(ntc, sData, beta).sd
    /\ ev' = Event("setNTCbeta", -1, NaN)
    /\ UNCHANGED <<adc, Rntc, RooCtor>>

\* the temperature of the NTC changes between calls
NtcChanges ==
    /\ \E R \in NtcValues(ntc) : R # Rntc /\ Rntc' = R
    /\ ev' = Event("NtcChanges", -1, NaN)
    /\ UNCHANGED <<ntc, adc, sData, RooCtor>>

\* ---------------------------------------------------------- the program
\* values an operator enters for the limits and for the delta, in hundredths
\* of a degree
LimitValues == {1800, 2200, 3000}
DeltaValues == {0, 400}

\* Thermostat: its configuration and its state
Thermostat(lo, hi) ==
    [limitLow |-> lo, limitHigh |-> hi, msRefresh |-> 2, msPrevious |-> 0,
     state |-> "Disabled"]

\* Thermostat::enable
enable(t) == [t EXCEPT !.state = "ArmedIdle"]

\* the setters: a configuration with limitHigh <= limitLow is rejected
setLimitUnchecked(t, lo, hi) ==
    [t |-> [t EXCEPT !.limitLow = lo, !.limitHigh = hi], result |-> "ok"]
setLimit(t, lo, hi) ==
    IF hi > lo
    THEN [t |-> [t EXCEPT !.limitLow = lo, !.limitHigh = hi], result |-> "ok"]
    ELSE [t |-> t, result |-> "ConfigurationInvalid"]
setLowerLimit(t, x) == setLimit(t, x, t.limitHigh)
setUpperLimit(t, x) == setLimit(t, t.limitLow, x)
setTempDelta(t, delta) == setLimit(t, t.limitLow, t.limitLow + delta)

\* the actuator as main.cpp drives it: heatingIsOn, the pin and the number of
\* digitalWrite commands of each kind in the current loop()
Actuator(on, pin) == [heatingIsOn |-> on, pin |-> pin, onCmds |-> 0, offCmds |-> 0]

turnHeatingOnForgetful(act) ==
    IF ~act.heatingIsOn
    THEN [act EXCEPT !.pin = "HIGH", !.onCmds = @ + 1]
    ELSE act
turnHeatingOn(act) ==
    IF ~act.heatingIsOn
    THEN [act EXCEPT !.pin = "HIGH", !.heatingIsOn = TRUE, !.onCmds = @ + 1]
    ELSE act

turnHeatingOff(act) ==
    IF act.heatingIsOn
    THEN [act EXCEPT !.pin = "LOW", !.heatingIsOn = FALSE, !.offCmds = @ + 1]
    ELSE act

\* processData(): sensor.readSensor(); printParams(); printData(), which reads
\* again; printSettings().  It takes processDataReads samples
processDataReads == 2
processData(nt, ad, sd, samples) ==
    readSensor(nt, ad, readSensor(nt, ad, sd, samples[1]), samples[2])

\* the hysteresis step of Thermostat::loop on the polled temperature tC:
\* the state it leaves and the callbacks it fires
hysteresis(t, tC) ==
    IF t.state = "ArmedIdle" /\ RLess(tC, Num(t.limitLow))
    THEN [state |-> "ArmedHeating", onCalls |-> 1, offCalls |-> 0]
    ELSE IF t.state = "ArmedHeating" /\ RGeq(tC, Num(t.limitHigh))
    THEN [state |-> "ArmedIdle", onCalls |-> 0, offCalls |-> 1]
    ELSE [state |-> t.state, onCalls |-> 0, offCalls |-> 0]

\* the callback the hysteresis step fires, applied to the actuator
fire(h, act) ==
    IF h.onCalls = 1 THEN turnHeatingOn(act)
    ELSE IF h.offCalls = 1 THEN turnHeatingOff(act)
    ELSE act

\* Thermostat::loop at millis() = time.  When the interval has elapsed: one
\* readSensor(), the data callback, the hysteresis step on getCelsius(), and
\* the timestamp; otherwise nothing.  samples are the analogRead results
polled(t, time, sd, act, h, n) ==
    [th |-> [t EXCEPT !.state = h.state, !.msPrevious = time],
     sd |-> sd, act |-> fire(h, act), polled |-> TRUE, reads |-> n, ticks |-> 1,
     onCalls |-> h.onCalls, offCalls |-> h.offCalls]
poll(t, time, sd, act, n) ==
    polled(t, time, sd, act,
           IF t.state = "Disabled"
           THEN [state |-> t.state, onCalls |-> 0, offCalls |-> 0]
           ELSE hysteresis(t, sd.tCelsius), n)
thermostatLoop(t, time, nt, ad, sd, act, samples) ==
    IF time - t.msPrevious >= t.msRefresh
    THEN poll(t, time,
              processData(nt, ad, readSensor(nt, ad, sd, Head(samples)), Tail(samples)),
              act, Len(samples))
    ELSE [th |-> t, sd |-> sd, act |-> act, polled |-> FALSE,
          reads |-> 0, ticks |-> 0, onCalls |-> 0, offCalls |-> 0]

\* what the last call of the program did.  req is the pair of limits a setter
\* asked for and was the pair before it
MainEvent(op, r, elapsed, stateBefore, req, was, result) ==
    [op |-> op, polled |-> r.polled, elapsed |-> elapsed, reads |-> r.reads,
     ticks |-> r.ticks, onCalls |-> r.onCalls, offCalls |-> r.offCalls,
     onCmds |-> r.act.onCmds, offCmds |-> r.act.offCmds,
     stateBefore |-> stateBefore, req |-> req, was |-> was, result |-> result]

Idle == [polled |-> FALSE, reads |-> 0, ticks |-> 0, onCalls |-> 0, offCalls |-> 0,
         act |-> Actuator(FALSE, "LOW")]
Limits(t) == <<t.limitLow, t.limitHigh>>

\* the entries of a history of call times that are less than one interval old
Recent(times, t, interval) == SelectSeq(times, LAMBDA x : t - x < interval)

\* setup(): initOutputPins(); initThermostat() = thermostat.setup(), which sets
\* up the sensor and takes the initial read, and thermostat.enable()
ArduinoSetup ==
    /\ pcMain = "boot"
    /\ pcMain' = "running"
    /\ pinThermostat' = "LOW"
    /\ \E a \in analogRead(ntc, adc, Rntc) :
          /\ sData' = readSensor(ntc, adc, setupRoo(ntc, adc, sData), a)
          /\ ev' = Event("setup", a, NaN)
    /\ th' = enable(th)
    /\ lev' = MainEvent("setup", Idle, 0, th.state, Limits(th), Limits(th), "ok")
    /\ UNCHANGED <<ntc, adc, Rntc, RooCtor, heatingIsOn, now, recent>>

\* loop(): thermostat.loop()
Loop ==
    /\ pcMain = "running"
    /\ \E samples \in [1..(1 + processDataReads) -> analogRead(ntc, adc, Rntc)] :
          \E r \in {thermostatLoop(th, now, ntc, adc, sData,
                                  Actuator(heatingIsOn, pinThermostat), samples)} :
              /\ sData' = r.sd
              /\ th' = r.th
              /\ heatingIsOn' = r.act.heatingIsOn
              /\ pinThermostat' = r.act.pin
              /\ ev' = IF r.polled THEN Event("printData", samples[Len(samples)], NaN)
                       ELSE ev
              /\ lev' = MainEvent("loop", r, now - th.msPrevious, th.state,
                                  Limits(th), Limits(th), "ok")
              /\ recent' =
                   [reads |-> Recent(recent.reads, now, th.msRefresh)
                                 \o [i \in 1..r.reads |-> now],
                    ticks |-> Recent(recent.ticks, now, th.msRefresh)
                                 \o [i \in 1..r.ticks |-> now]]
    /\ UNCHANGED <<ntc, adc, Rntc, RooCtor, now, pcMain>>

\* doMenu(): the operator sets a limit or the delta
SetLowerLimit ==
    /\ pcMain = "running"
    /\ \E x \in LimitValues :
          /\ th' = setLowerLimit(th, x).t
          /\ lev' = MainEvent("setLowerLimit", Idle, 0, th.state,
                              <<x, th.limitHigh>>, Limits(th), setLowerLimit(th, x).result)
    /\ UNCHANGED <<sensorVars, heatingIsOn, pinThermostat, now, pcMain, recent>>

SetUpperLimit ==
    /\ pcMain = "running"
    /\ \E x \in LimitValues :
          /\ th' = setUpperLimit(th, x).t
          /\ lev' = MainEvent("setUpperLimit", Idle, 0, th.state,
                              <<th.limitLow, x>>, Limits(th), setUpperLimit(th, x).result)
    /\ UNCHANGED <<sensorVars, heatingIsOn, pinThermostat, now, pcMain, recent>>

SetTempDelta ==
    /\ pcMain = "running"
    /\ \E x \in DeltaValues :
          /\ th' = setTempDelta(th, x).t
          /\ lev' = MainEvent("setTempDelta", Idle, 0, th.state,
                              <<th.limitLow, th.limitLow + x>>, Limits(th),
                              setTempDelta(th, x).result)
    /\ UNCHANGED <<sensorVars, heatingIsOn, pinThermostat, now, pcMain, recent>>

\* millis() advances
TimePasses ==
    /\ now < MaxTime
    /\ now' = now + 1
    /\ recent' = [reads |-> Recent(recent.reads, now + 1, th.msRefresh),
                  ticks |-> Recent(recent.ticks, now + 1, th.msRefresh)]
    /\ UNCHANGED <<sensorVars, th, heatingIsOn, pinThermostat, pcMain, lev>>

\* ------------------------------------------------------------ BME280
\* the BME280's SensorData, a zero-initialised global; degrees Celsius, hPa, %
BME280Data ==
    [tCelsius |-> Num(0), tFahrenheit |-> Num(0), relHumidity |-> Num(0),
     pLocal |-> Num(0), npLocal |-> Num(0), dewPoint |-> Num(0),
     altLocal |-> Num(0), pSeaLevel |-> Num(0)]

\* what the hardware answers: temperature (deg C), humidity (%), pressure (Pa)
BmeTemperatures == {0, 20, 25}
BmePressures == {101325}
BmeEnvs == [temperature : BmeTemperatures, humidity : {100}, pressure : BmePressures]

\* pow(x, y), on the base 1
Pow(x, y) == IF x = Num(1) THEN Num(1) ELSE NaN
PowExact(x) == x = Num(1)

\* BME280Sensor::_calculateNpLocal
calculateNpLocal(sd) ==
    RMul(Rat(101325, 100),
         Pow(RSub(Num(1), RDiv(sd.altLocal, Num(44330))), Rat(5255, 1000)))

\* BME280Sensor::_calculateDewPoint
dewK(sd) ==
    RAdd(Log(RDiv(sd.relHumidity, Num(100))),
         RDiv(RMul(Rat(1762, 100), sd.tCelsius), RAdd(Rat(24312, 100), sd.tCelsius)))
calculateDewPoint(sd) ==
    RDiv(RMul(Rat(24312, 100), dewK(sd)), RSub(Rat(1762, 100), dewK(sd)))

\* BME280Sensor::_readSensor
bmeReadSensor(sd, env) ==
    LET s1 == [sd EXCEPT !.pLocal = RDiv(Num(env.pressure), Num(100)),
                         !.relHumidity = Num(env.humidity),
                         !.tCelsius = Num(env.temperature)]
        s2 == [s1 EXCEPT !.tFahrenheit =
                            RAdd(RDiv(RMul(s1.tCelsius, Num(9)), Num(5)), Num(32))]
        s3 == [s2 EXCEPT !.npLocal = calculateNpLocal(s2)]
    IN  [s3 EXCEPT !.dewPoint = calculateDewPoint(s3)]

\* the while loop of BME280Sensor::setup, from its i-th call of begin() on:
\* begin() answers either way; the loop leaves the tries left, the number of
\* begin() calls made and whether the last call succeeded
RECURSIVE setupWhile(_, _)
setupWhile(i, tries) ==
    UNION { IF ~found /\ tries > 0
            THEN setupWhile(i + 1, tries - 1)
            ELSE {[tries |-> tries, attempts |-> i, found |-> found]}
            : found \in BOOLEAN }

\* the tries setup() starts with
Tries == 5

\* after the loop: not found and halt, or the initial read
setupGivesUpNever(w) == FALSE
setupGivesUp(w) == w.tries <= 0

BmeEvent(op, before, reads, ret, w, message) ==
    [op |-> op, before |-> before, reads |-> reads, ret |-> ret,
     attempts |-> w.attempts, found |-> w.found, message |-> message]

NoWhile == [tries |-> 0, attempts |-> 0, found |-> FALSE]

BME_setup ==
    /\ bme.pc \in {"constructed", "ready"}
    /\ \E w \in setupWhile(1, Tries) :
              IF setupGivesUp(w)
              THEN /\ bme' = [pc |-> "halted", tries |-> w.tries]
                   /\ bev' = BmeEvent("setup", bmeData, 0, NaN, w, "BME280 not found")
                   /\ UNCHANGED bmeData
              ELSE /\ bme' = [pc |-> "ready", tries |-> w.tries]
                   /\ bmeData' = bmeReadSensor(bmeData, bmeEnv)
                   /\ bev' = BmeEvent("setup", bmeData, 1, NaN, w, "")
    /\ UNCHANGED bmeEnv

\* while(true) delay(10000UL): setup() never returns
BME_halted ==
    /\ bme.pc = "halted"
    /\ UNCHANGED bmeVars

\* getCelsius(): _readSensor(), then the stored value
bmeGetCelsius(sd, env) ==
    [sd |-> bmeReadSensor(sd, env), reads |-> 1,
     ret |-> bmeReadSensor(sd, env).tCelsius]

BME_getCelsius ==
    /\ bme.pc \in {"constructed", "ready"}
    /\ bmeData' = bmeGetCelsius(bmeData, bmeEnv).sd
    /\ bev' = BmeEvent("getCelsius", bmeData, bmeGetCelsius(bmeData, bmeEnv).reads,
                       bmeGetCelsius(bmeData, bmeEnv).ret, NoWhile, "")
    /\ UNCHANGED <<bme, bmeEnv>>

\* printSensorData(): _readSensor(), then the dump
BME_printSensorData ==
    /\ bme.pc \in {"constructed", "ready"}
    /\ bmeData' = bmeReadSensor(bmeData, bmeEnv)
    /\ bev' = BmeEvent("printSensorData", bmeData, 1, NaN, NoWhile, "")
    /\ UNCHANGED <<bme, bmeEnv>>

\* the air changes between calls
BmeEnvChanges ==
    /\ \E e \in BmeEnvs : e # bmeEnv /\ bmeEnv' = e
    /\ UNCHANGED <<bme, bmeData, bev>>

\* ------------------------------------------------------ specifications
\* the state after construction of the globals of main.cpp
InitSensorIdle ==
    /\ ntc = ntcRs10k
    /\ adc = adcEsp32_11
    /\ sData = NTCSensor(ntc)
    /\ Rntc = ntc.Rs
    /\ RooCtor = sData.Roo
    /\ ev = Event("NTCSensor", -1, NaN)

InitMainIdle ==
    /\ th = Thermostat(1800, 2200)
    /\ heatingIsOn = FALSE
    /\ pinThermostat = "LOW"
    /\ now = 0
    /\ pcMain = "boot"
    /\ lev = MainEvent("none", Idle, 0, th.state, Limits(th), Limits(th), "ok")
    /\ recent = [reads |-> <<>>, ticks |-> <<>>]

InitBmeIdle ==
    /\ bme = [pc |-> "constructed", tries |-> 0]
    /\ bmeData = BME280Data
    /\ bmeEnv = [temperature |-> 20, humidity |-> 100, pressure |-> 101325]
    /\ bev = BmeEvent("BME280Sensor", bmeData, 0, NaN, NoWhile, "")

\* the program of main.cpp: sensor(ntcRs10k, adcEsp32_11, sensorData) and the
\* thermostat on it
Init ==
    /\ ntc = ntcRs10k
    /\ adc = adcEsp32_11
    /\ sData = NTCSensor(ntc)
    /\ Rntc \in NtcValues(ntc)
    /\ RooCtor = sData.Roo
    /\ ev = Event("NTCSensor", -1, NaN)
    /\ th = Thermostat(1800, 2200)
    /\ heatingIsOn = FALSE
    /\ pinThermostat = "LOW"
    /\ now = 0
    /\ pcMain = "boot"
    /\ lev = MainEvent("none", Idle, 0, th.state, Limits(th), Limits(th), "ok")
    /\ recent = [reads |-> <<>>, ticks |-> <<>>]
    /\ InitBmeIdle

Next ==
    \/ ArduinoSetup /\ UNCHANGED bmeVars
    \/ Loop /\ UNCHANGED bmeVars
    \/ SetLowerLimit /\ UNCHANGED bmeVars
    \/ SetUpperLimit /\ UNCHANGED bmeVars
    \/ SetTempDelta /\ UNCHANGED bmeVars
    \/ TimePasses /\ UNCHANGED bmeVars
    \/ NtcChanges /\ UNCHANGED <<mainVars, bmeVars>>

Spec == Init /\ [][Next]_vars

\* an NTCSensor on any of the parameter sets and wirings, called in any order
InitSensor ==
    /\ \E p \in {ntcRs10k, ntcRs20k}, b \in BetaValues : ntc = [p EXCEPT !.beta = b]
    /\ \E g \in BOOLEAN : adc = [adcEsp32_11 EXCEPT !.ntcToGround = g]
    /\ sData = NTCSensor(ntc)
    /\ Rntc \in NtcValues(ntc)
    /\ RooCtor = sData.Roo
    /\ ev = Event("NTCSensor", -1, NaN)
    /\ InitMainIdle
    /\ InitBmeIdle

NextSensor ==
    \/ NTC_setup /\ UNCHANGED <<mainVars, bmeVars>>
    \/ NTC_readSensor /\ UNCHANGED <<mainVars, bmeVars>>
    \/ NTC_getCelsius /\ UNCHANGED <<mainVars, bmeVars>>
    \/ NTC_printData /\ UNCHANGED <<mainVars, bmeVars>>
    \/ NTC_printParams /\ UNCHANGED <<mainVars, bmeVars>>
    \/ NTC_setNTCbeta /\ UNCHANGED <<mainVars, bmeVars>>
    \/ NtcChanges /\ UNCHANGED <<mainVars, bmeVars>>

SpecSensor == InitSensor /\ [][NextSensor]_vars

\* a BME280Sensor, called in any order
InitBME ==
    /\ InitSensorIdle
    /\ InitMainIdle
    /\ bme = [pc |-> "constructed", tries |-> 0]
    /\ bmeData = BME280Data
    /\ bmeEnv \in BmeEnvs
    /\ bev = BmeEvent("BME280Sensor", bmeData, 0, NaN, NoWhile, "")

NextBME ==
    \/ BME_setup /\ UNCHANGED <<sensorVars, mainVars>>
    \/ BME_halted /\ UNCHANGED <<sensorVars, mainVars>>
    \/ BME_getCelsius /\ UNCHANGED <<sensorVars, mainVars>>
    \/ BME_printSensorData /\ UNCHANGED <<sensorVars, mainVars>>
    \/ BmeEnvChanges /\ UNCHANGED <<sensorVars, mainVars>>

SpecBME == InitBME /\ [][NextBME]_vars

\* ------------------------------------------------------------ the model
\* Every logarithm, exponential and power the model takes is exact
ModelExact ==
    /\ ExpExact(RooExponent(ntc))
    /\ (ev.op \in {"setup", "readSensor", "printData"})
          => LogExact(RDiv(sData.Rt, sData.Roo))
    /\ (bev.reads > 0)
          => /\ LogExact(RDiv(bmeData.relHumidity, Num(100)))
             /\ PowExact(RSub(Num(1), RDiv(bmeData.altLocal, Num(44330))))

\* the calls that run readSensor()
ReadOps == {"setup", "readSensor", "printData"}

C2_IntervalGating ==
    /\ Len(recent.reads) <= 1
    /\ Len(recent.ticks) <= 1
    /\ (lev.op = "loop" /\ lev.elapsed < th.msRefresh)
          => (~lev.polled /\ lev.reads = 0 /\ lev.ticks = 0)

\* C3: getCelsius() of either sensor returns the stored Celsius value, takes
\* no sample and leaves every field of the Measurement Record as it was.
C3_GetCelsiusNoRead ==
    /\ (ev.op = "getCelsius") => ev.ret = sData.tCelsius
    /\ (bev.op = "getCelsius") =>
          /\ bev.reads = 0
          /\ bmeData = bev.before
          /\ bev.ret = bev.before.tCelsius

\* the NTC sensor's half of C3, which holds: no step of getCelsius() changes
\* the record, and it returns the stored value
NTC_GetCelsiusNoRead ==
    [][(ev'.op = "getCelsius") => (sData' = sData /\ ev'.ret = sData.tCelsius)]_vars

\* C4: a readSensor() whose sample gives Rt = Roo is discarded: the record
\* keeps the values of the previous read and holds no non-finite temperature.
C4_InvalidReadingDiscarded ==
    [][(/\ ev'.op \in {"readSensor", "printData"}
        /\ RtOf(ntc, Kwired(adc, kPreOf(adc, ev'.raw))) = sData.Roo)
       => (sData' = sData /\ IsFinite(sData'.tKelvin) /\ IsFinite(sData'.tCelsius))]_vars

C6_ReturnsSensorNotFound ==
    (bev.op = "setup" /\ ~bev.found) =>
        (bme.pc # "halted" /\ bev.reads = 0 /\ bmeData = bev.before)

\* C6 as amended: when every begin() failed, setup() prints the not-found
\* message and never returns: it stays in its endless delay loop, where
\* nothing changes any more, and it takes no initial read.
C6_HaltsWithoutRead ==
    /\ [](  (bev.op = "setup" /\ ~bev.found)
         => /\ bme.pc = "halted"
            /\ bev.message = "BME280 not found"
            /\ bev.reads = 0
            /\ bmeData = bev.before)
    /\ [][(bme.pc = "halted") => UNCHANGED <<bme, bmeData, bev>>]_vars

\* C6 witness: setup() gave up after Tries + 1 failed calls of begin()
C6_Witness ==
    /\ bev.op = "setup" /\ ~bev.found
    /\ bev.attempts = Tries + 1
    /\ bme.pc = "halted"

C8_RooConstant == sData.Roo = RooCtor

\* C8 as amended: readSensor(), printData(), printParams(), getCelsius() and
\* setNTCbeta() never change the stored Roo; setup() writes it, to
\* Ro * exp(-beta / (To - Tabs)) of the beta held when it runs.
C8_RooOnlySetup ==
    [][/\ (ev'.op # "setup") => (sData'.Roo = sData.Roo)
       /\ (ev'.op = "setup") => (sData'.Roo = RooOf(ntc))]_vars

\* C8 witness: a setup() after a change of beta left another Roo than the
\* constructor's
C8_Witness ==
    /\ ev.op = "setup"
    /\ sData.Roo # RooCtor
    /\ sData.Roo = RooOf(ntc)

\* C9: BME280Sensor::setup() reports not found (and takes no initial read)
\* only if every begin() call failed; when some begin() call succeeded, the
\* last one made included, it goes on to the initial _readSensor().
C9_FoundMeansRead ==
    (bev.op = "setup") =>
        /\ bev.found => (bme.pc = "ready" /\ bev.reads = 1)
        /\ (bme.pc = "halted") => ~bev.found

\* C10: the stored Roo is Ro * exp(-beta / (To - Tabs)) of the beta the
\* calibration parameters hold now.
C10_RooMatchesBeta == sData.Roo = RooOf(ntc)

=============================================================================
